---- MODULE Spec2Model ----
(***************************************************************************)
(* A model of generate_cordic_constants.py: the command-line entry point   *)
(* main() and the generator generate_cordic_constants(angle_width,         *)
(* iterations, width), with the arithmetic the generator performs          *)
(* (Python's unbounded integers, IEEE-754 double multiplication and        *)
(* division, int() truncation, the "0NX" hexadecimal format, int() on a    *)
(* command-line string).                                                   *)
(*                                                                         *)
(* Python integers are unbounded and the generated constants exceed 32     *)
(* bits, so a non-negative integer is a little-endian sequence of limbs in *)
(* base 4096 with no leading zero limb (zero is << >>), and a double is a  *)
(* record [m, e] standing for m * 2^e with m a 53-bit integer.             *)
(***************************************************************************)
EXTENDS Integers, Sequences, FiniteSets, TLC

\* ------------------------------------------------------------------------
\* Bounds of the model (inputs main() is started with).
\* ------------------------------------------------------------------------
MaxAngleWidth == 56
MaxIterations == 3
MaxDataWidth == 5

\* ------------------------------------------------------------------------
\* Unbounded non-negative integers (Python int), base 4096, little-endian.
\* ------------------------------------------------------------------------
LimbBits == 12
Base == 4096

\* 2^n for 0 <= n <= LimbBits.
Pow2(n) == <<1, 2, 4, 8, 16, 32, 64, 128, 256, 512, 1024, 2048, 4096>>[n + 1]

Max(a, b) == IF a >= b THEN a ELSE b
Min(a, b) == IF a <= b THEN a ELSE b

\* Python's floor division by a positive divisor.
FloorDiv(a, d) == IF a >= 0 THEN a \div d ELSE -((-a + d - 1) \div d)

\* Drop the zero limbs at the most significant end.
BNorm(a) ==
    LET used == {p \in 1..Len(a) : a[p] # 0}
    IN IF used = {} THEN << >>
       ELSE SubSeq(a, 1, CHOOSE p \in used : \A o \in used : o <= p)

RECURSIVE BFromInt(_)
BFromInt(n) == IF n = 0 THEN << >> ELSE <<n % Base>> \o BFromInt(n \div Base)

\* The value of a Big known to be small (at most two limbs are read).
BToInt(a) ==
    IF Len(a) = 0 THEN 0
    ELSE IF Len(a) = 1 THEN a[1]
    ELSE a[1] + Base * a[2]

Limb(a, ix) == IF ix >= 1 /\ ix <= Len(a) THEN a[ix] ELSE 0

\* Carry propagation over a sequence of column sums (each below 2^30), without
\* recursion: a column sum is split into three limbs that are added one and
\* two places up, the small carries of those sums are added one place up, and
\* the remaining carries (0 or 1) are found by carry look-ahead.
At(cols, p) == IF p >= 1 /\ p <= Len(cols) THEN cols[p] ELSE 0

Spread(cols) ==
    [p \in 1..(Len(cols) + 3) |->
        (At(cols, p) % Base)
        + ((At(cols, p - 1) \div Base) % Base)
        + (At(cols, p - 2) \div (Base * Base))]

Settle(cols) ==
    [p \in 1..Len(cols) |-> (cols[p] % Base) + (At(cols, p - 1) \div Base)]

CarryIn(cols, p) ==
    \E g \in 1..(p - 1) :
        /\ cols[g] >= Base
        /\ \A o \in (g + 1)..(p - 1) : cols[o] = Base - 1

Ripple(cols) ==
    [p \in 1..Len(cols) |-> (cols[p] + (IF CarryIn(cols, p) THEN 1 ELSE 0)) % Base]

Carry(cols) == Ripple(Settle(Spread(cols)))

BAdd(a, b) ==
    BNorm(Carry([ix \in 1..Max(Len(a), Len(b)) |-> Limb(a, ix) + Limb(b, ix)]))

RECURSIVE SumProd(_, _, _, _)
SumProd(a, b, k, ix) ==
    IF ix > Len(a) \/ ix > k THEN 0
    ELSE (IF k - ix + 1 <= Len(b) THEN a[ix] * b[k - ix + 1] ELSE 0)
         + SumProd(a, b, k, ix + 1)

BMul(a, b) ==
    IF a = << >> \/ b = << >> THEN << >>
    ELSE BNorm(Carry([k \in 1..(Len(a) + Len(b) - 1) |-> SumProd(a, b, k, 1)]))

\* -1, 0, 1 as a < b, a = b, a > b (both normalised).
BCmp(a, b) ==
    IF Len(a) # Len(b) THEN (IF Len(a) < Len(b) THEN -1 ELSE 1)
    ELSE IF a = b THEN 0
    ELSE LET top == CHOOSE ix \in 1..Len(a) :
                       /\ a[ix] # b[ix]
                       /\ \A j \in (ix + 1)..Len(a) : a[j] = b[j]
         IN IF a[top] < b[top] THEN -1 ELSE 1

\* a - b for a >= b.
RECURSIVE Borrow(_, _, _, _)
Borrow(a, b, ix, br) ==
    IF ix > Len(a) THEN << >>
    ELSE LET diff == a[ix] - Limb(b, ix) - br
         IN <<IF diff < 0 THEN diff + Base ELSE diff>>
            \o Borrow(a, b, ix + 1, IF diff < 0 THEN 1 ELSE 0)

BSub(a, b) == BNorm(Borrow(a, b, 1, 0))

\* The bit length of a limb.
SmallBitLen(n) ==
    IF n = 0 THEN 0 ELSE CHOOSE b \in 1..LimbBits : Pow2(b - 1) <= n /\ n < Pow2(b)

\* Python's int.bit_length().
BBitLen(a) ==
    IF a = << >> THEN 0 ELSE (Len(a) - 1) * LimbBits + SmallBitLen(a[Len(a)])

\* a << s  (a * 2^s).
BShl(a, s) ==
    IF a = << >> THEN << >>
    ELSE LET lq == s \div LimbBits
             lr == s % LimbBits
         IN [ix \in 1..lq |-> 0]
            \o BNorm(Carry([ix \in 1..Len(a) |-> a[ix] * Pow2(lr)]))

\* a >> s  (floor(a / 2^s)).
BShr(a, s) ==
    LET sq == s \div LimbBits
        sr == s % LimbBits
    IN IF sq >= Len(a) THEN << >>
       ELSE BNorm([ix \in 1..(Len(a) - sq) |->
                     (a[ix + sq] \div Pow2(sr))
                     + (Limb(a, ix + sq + 1) % Pow2(sr)) * Pow2(LimbBits - sr)])

\* a mod 2^s.
BLow(a, s) == BSub(a, BShl(BShr(a, s), s))

BPow2(n) == BShl(<<1>>, n)

BOdd(a) == a # << >> /\ a[1] % 2 = 1

\* One digit of a long division: the largest g with g * dv <= rem, for
\* rem < dv * Base and dv of at least two limbs whose top limb is below 32
\* (a 53-bit significand), so that three limbs of rem fit in 31 bits.  The
\* digit lies between the two quotients of the leading limbs.
QuotDigit(rem, dv) ==
    LET top == Len(dv)
        lead == (Limb(rem, top + 1) * Base + Limb(rem, top)) * Base + Limb(rem, top - 1)
        div2 == dv[top] * Base + dv[top - 1]
        least == lead \div (div2 + 1)
        most == Min((lead + 1) \div div2, Base - 1)
    IN CHOOSE g \in least..most :
           /\ BCmp(BMul(dv, BFromInt(g)), rem) <= 0
           /\ \A o \in (g + 1)..most : BCmp(BMul(dv, BFromInt(o)), rem) > 0

\* Long division of Base^steps by dv, one base-4096 digit per step: the
\* quotient and the remainder.  (The length test is never true; it makes TLC
\* evaluate both accumulators at every step instead of nesting all steps.)
RECURSIVE LongDiv(_, _, _, _)
LongDiv(dv, steps, quo, rem) ==
    IF steps = 0 \/ Len(quo) + Len(rem) < 0 THEN [q |-> quo, r |-> rem]
    ELSE LET up == BShl(rem, LimbBits)
             dg == QuotDigit(up, dv)
         IN LongDiv(dv, steps - 1, BNorm(<<dg>> \o quo),
                    BSub(up, BMul(dv, BFromInt(dg))))

\* floor(Base^steps / dv) and the remainder, for dv >= 1.
BDivBasePow(steps, dv) == LongDiv(dv, steps, << >>, <<1>>)

\* Hexadecimal digits, most significant first, of a Big ("X" without padding).
HexDigit(a, pos) ==
    LET limb == a[Len(a) - ((pos - 1) \div 3)]
        sub == (pos - 1) % 3
    IN IF sub = 0 THEN limb \div 256
       ELSE IF sub = 1 THEN (limb \div 16) % 16
       ELSE limb % 16

BHex(a) ==
    IF a = << >> THEN <<0>>
    ELSE LET all == [pos \in 1..(3 * Len(a)) |-> HexDigit(a, pos)]
             first == CHOOSE pos \in 1..Len(all) :
                          all[pos] # 0 /\ \A o \in 1..(pos - 1) : all[o] = 0
         IN SubSeq(all, first, Len(all))

HexAt(h, pos) == IF pos >= 1 THEN h[pos] ELSE 0

\* The integer written with the hexadecimal digits h (three digits a limb).
BFromHex(h) ==
    BNorm([j \in 1..((Len(h) + 2) \div 3) |->
             HexAt(h, Len(h) - 3 * (j - 1))
             + 16 * HexAt(h, Len(h) - 3 * (j - 1) - 1)
             + 256 * HexAt(h, Len(h) - 3 * (j - 1) - 2)])

\* ------------------------------------------------------------------------
\* IEEE-754 binary64 (Python float), positive values: m * 2^e with
\* 2^52 <= m < 2^53, or m = << >> for 0.0.
\* ------------------------------------------------------------------------
MantissaBits == 53

\* Round-to-nearest, ties-to-even, of the exact value big * 2^ex.
FRound(big, ex) ==
    LET len == BBitLen(big)
        cut == len - MantissaBits
    IN IF big = << >> THEN [m |-> << >>, e |-> 0]
       ELSE IF cut <= 0 THEN [m |-> BShl(big, -cut), e |-> ex + cut]
       ELSE LET kept == BShr(big, cut)
                half == BCmp(BLow(big, cut), BPow2(cut - 1))
                rounded == IF half > 0 \/ (half = 0 /\ BOdd(kept))
                           THEN BAdd(kept, <<1>>) ELSE kept
            IN IF BBitLen(rounded) > MantissaBits
               THEN [m |-> BShr(rounded, 1), e |-> ex + cut + 1]
               ELSE [m |-> rounded, e |-> ex + cut]

\* float(n) for a Python int n.
FFromBig(big) == FRound(big, 0)

\* x * y.
FMul(x, y) == FRound(BMul(x.m, y.m), x.e + y.e)

\* 1.0 / x for x > 0: the quotient 4096^9 / x.m carries 56 bits; a non-zero
\* remainder is kept as a sticky bit below it.
FInv(x) ==
    LET dv == BDivBasePow(9, x.m)
    IN IF dv.r = << >>
       THEN FRound(BShl(dv.q, 1), -(9 * LimbBits) - 1 - x.e)
       ELSE FRound(BAdd(BShl(dv.q, 1), <<1>>), -(9 * LimbBits) - 1 - x.e)

\* x / 2 (exact).
FHalf(x) == [m |-> x.m, e |-> x.e - 1]

\* 2 ** k as a float (Python gives a float for k < 0).
FPow2(k) == [m |-> BPow2(MantissaBits - 1), e |-> k - (MantissaBits - 1)]

\* int(x): truncation toward zero.
FTrunc(x) == IF x.e >= 0 THEN BShl(x.m, x.e) ELSE BShr(x.m, -x.e)

FOne == FPow2(0)

\* math.pi = 0x1.921fb54442d18p+1
MathPi == [m |-> BFromHex(<<1, 9, 2, 1, 15, 11, 5, 4, 4, 4, 2, 13, 1, 8>>), e |-> -51]

\* math.sqrt(1 + 2**(-2*i)) for i = 0..25, as the 53-bit significand of
\* float.hex(); every entry has exponent -52 (a value in [1, 2)).  From i = 26
\* on the result is exactly 1.0.
SqrtSignificands == <<
    <<1, 6, 10, 0, 9, 14, 6, 6, 7, 15, 3, 11, 12, 13>>,
    <<1, 1, 14, 3, 7, 7, 9, 11, 9, 7, 15, 4, 10, 8>>,
    <<1, 0, 7, 14, 0, 15, 6, 6, 10, 15, 14, 13, 0, 7>>,
    <<1, 0, 1, 15, 14, 0, 3, 15, 6, 1, 11, 10, 13, 0>>,
    <<1, 0, 0, 7, 15, 14, 0, 0, 15, 15, 6, 0, 7, 0>>,
    <<1, 0, 0, 1, 15, 15, 14, 0, 0, 3, 15, 15, 6, 0>>,
    <<1, 0, 0, 0, 7, 15, 15, 14, 0, 0, 0, 15, 15, 15>>,
    <<1, 0, 0, 0, 1, 15, 15, 15, 14, 0, 0, 0, 4, 0>>,
    <<1, 0, 0, 0, 0, 7, 15, 15, 15, 14, 0, 0, 0, 1>>,
    <<1, 0, 0, 0, 0, 1, 15, 15, 15, 15, 14, 0, 0, 0>>,
    <<1, 0, 0, 0, 0, 0, 7, 15, 15, 15, 15, 14, 0, 0>>,
    <<1, 0, 0, 0, 0, 0, 1, 15, 15, 15, 15, 15, 14, 0>>,
    <<1, 0, 0, 0, 0, 0, 0, 7, 15, 15, 15, 15, 15, 14>>,
    <<1, 0, 0, 0, 0, 0, 0, 2, 0, 0, 0, 0, 0, 0>>,
    <<1, 0, 0, 0, 0, 0, 0, 0, 8, 0, 0, 0, 0, 0>>,
    <<1, 0, 0, 0, 0, 0, 0, 0, 2, 0, 0, 0, 0, 0>>,
    <<1, 0, 0, 0, 0, 0, 0, 0, 0, 8, 0, 0, 0, 0>>,
    <<1, 0, 0, 0, 0, 0, 0, 0, 0, 2, 0, 0, 0, 0>>,
    <<1, 0, 0, 0, 0, 0, 0, 0, 0, 0, 8, 0, 0, 0>>,
    <<1, 0, 0, 0, 0, 0, 0, 0, 0, 0, 2, 0, 0, 0>>,
    <<1, 0, 0, 0, 0, 0, 0, 0, 0, 0, 0, 8, 0, 0>>,
    <<1, 0, 0, 0, 0, 0, 0, 0, 0, 0, 0, 2, 0, 0>>,
    <<1, 0, 0, 0, 0, 0, 0, 0, 0, 0, 0, 0, 8, 0>>,
    <<1, 0, 0, 0, 0, 0, 0, 0, 0, 0, 0, 0, 2, 0>>,
    <<1, 0, 0, 0, 0, 0, 0, 0, 0, 0, 0, 0, 0, 8>>,
    <<1, 0, 0, 0, 0, 0, 0, 0, 0, 0, 0, 0, 0, 2>>
>>

SqrtTerm(k) ==
    IF k < Len(SqrtSignificands)
    THEN [m |-> BFromHex(SqrtSignificands[k + 1]), e |-> -52]
    ELSE FOne

\* math.atan(2**(-i)) for i = 0..26, as the 53-bit significand of float.hex();
\* entry i has exponent -53 - i.  From i = 27 on the result is exactly 2**(-i).
AtanSignificands == <<
    <<1, 9, 2, 1, 15, 11, 5, 4, 4, 4, 2, 13, 1, 8>>,
    <<1, 13, 10, 12, 6, 7, 0, 5, 6, 1, 11, 11, 4, 15>>,
    <<1, 15, 5, 11, 7, 5, 15, 9, 2, 12, 8, 0, 13, 13>>,
    <<1, 15, 13, 5, 11, 10, 9, 10, 10, 12, 2, 15, 6, 14>>,
    <<1, 15, 15, 5, 5, 11, 11, 7, 2, 12, 15, 13, 14, 10>>,
    <<1, 15, 15, 13, 5, 5, 11, 11, 10, 9, 7, 6, 2, 5>>,
    <<1, 15, 15, 15, 5, 5, 5, 11, 11, 11, 7, 2, 9, 11>>,
    <<1, 15, 15, 15, 13, 5, 5, 5, 11, 11, 11, 10, 9, 7>>,
    <<1, 15, 15, 15, 15, 5, 5, 5, 5, 11, 11, 11, 11, 7>>,
    <<1, 15, 15, 15, 15, 13, 5, 5, 5, 5, 11, 11, 11, 12>>,
    <<1, 15, 15, 15, 15, 15, 5, 5, 5, 5, 5, 11, 11, 12>>,
    <<1, 15, 15, 15, 15, 15, 13, 5, 5, 5, 5, 5, 11, 12>>,
    <<1, 15, 15, 15, 15, 15, 15, 5, 5, 5, 5, 5, 5, 12>>,
    <<1, 15, 15, 15, 15, 15, 15, 13, 5, 5, 5, 5, 5, 6>>,
    <<1, 15, 15, 15, 15, 15, 15, 15, 5, 5, 5, 5, 5, 5>>,
    <<1, 15, 15, 15, 15, 15, 15, 15, 13, 5, 5, 5, 5, 5>>,
    <<1, 15, 15, 15, 15, 15, 15, 15, 15, 5, 5, 5, 5, 5>>,
    <<1, 15, 15, 15, 15, 15, 15, 15, 15, 13, 5, 5, 5, 5>>,
    <<1, 15, 15, 15, 15, 15, 15, 15, 15, 15, 5, 5, 5, 5>>,
    <<1, 15, 15, 15, 15, 15, 15, 15, 15, 15, 13, 5, 5, 5>>,
    <<1, 15, 15, 15, 15, 15, 15, 15, 15, 15, 15, 5, 5, 5>>,
    <<1, 15, 15, 15, 15, 15, 15, 15, 15, 15, 15, 13, 5, 5>>,
    <<1, 15, 15, 15, 15, 15, 15, 15, 15, 15, 15, 15, 5, 5>>,
    <<1, 15, 15, 15, 15, 15, 15, 15, 15, 15, 15, 15, 13, 5>>,
    <<1, 15, 15, 15, 15, 15, 15, 15, 15, 15, 15, 15, 15, 5>>,
    <<1, 15, 15, 15, 15, 15, 15, 15, 15, 15, 15, 15, 15, 13>>,
    <<1, 15, 15, 15, 15, 15, 15, 15, 15, 15, 15, 15, 15, 15>>
>>

MathAtanPow2(k) ==
    IF k < Len(AtanSignificands)
    THEN [m |-> BFromHex(AtanSignificands[k + 1]), e |-> -53 - k]
    ELSE FPow2(-k)

\* ------------------------------------------------------------------------
\* Command-line strings: a string is a sequence of one-character strings.
\* ------------------------------------------------------------------------
DigitChars == <<"0", "1", "2", "3", "4", "5", "6", "7", "8", "9">>

IsDigit(c) == \E k \in 1..Len(DigitChars) : DigitChars[k] = c

DigitVal(c) == (CHOOSE k \in 1..Len(DigitChars) : DigitChars[k] = c) - 1

\* The digits of int(s) once an optional sign is removed.
Unsigned(s) == IF s # << >> /\ s[1] \in {"+", "-"} THEN Tail(s) ELSE s

\* int(s) succeeds: an optional sign followed by at least one decimal digit
\* (the inputs of the model hold no blanks and no underscores).
IntOk(s) == Unsigned(s) # << >> /\ \A k \in 1..Len(Unsigned(s)) : IsDigit(Unsigned(s)[k])

RECURSIVE DecValue(_, _)
DecValue(ds, acc) ==
    IF ds = << >> THEN acc ELSE DecValue(Tail(ds), 10 * acc + DigitVal(ds[1]))

\* int(s) where it succeeds.
IntVal(s) ==
    IF s[1] = "-" THEN -DecValue(Unsigned(s), 0) ELSE DecValue(Unsigned(s), 0)

\* str(n) for n >= 0: the decimal text a caller types for the integer n.
RECURSIVE Dec(_)
Dec(n) ==
    IF n < 10 THEN <<DigitChars[n + 1]>>
    ELSE Dec(n \div 10) \o <<DigitChars[(n % 10) + 1]>>

\* ------------------------------------------------------------------------
\* Formatting.
\* ------------------------------------------------------------------------
\* (bits + 3) // 4, the field width of the hex literals.
HexWidth(bits) == FloorDiv(bits + 3, 4)

\* The format spec "0{n}X" is rejected (ValueError) for a negative width.
FormatOk(n) == n >= 0

\* f"{v:0{n}X}": at least n digits, zero-padded on the left, never cut.
\* Faulty variant: no zero padding.
UnpaddedHex(v, n) == BHex(v)

FormatHex(v, n) ==
    IF Len(BHex(v)) >= n THEN BHex(v)
    ELSE [k \in 1..(n - Len(BHex(v))) |-> 0] \o BHex(v)

\* One emitted item of standard output.  Blank lines are not recorded.
Item(kind, name, bits, hex, idx) ==
    [kind |-> kind, name |-> name, bits |-> bits, hex |-> hex, idx |-> idx]

Line(kind) == Item(kind, "", 0, << >>, 0)

\* ------------------------------------------------------------------------
\* The derivations of generate_cordic_constants.
\* ------------------------------------------------------------------------
MinFracBits == 5
IntegerBits == 3
ReductionMargin == 4
ReductionCap == 10

\* Faulty variant: no floor of 5 fractional bits.
UnflooredFracBits(aw) == aw - IntegerBits

FracBits(aw) == Max(aw - IntegerBits, MinFracBits)

AngleScale(fb) == BPow2(fb)

CoordScale(w) == FPow2(w - 2)

PiScaled(scale) == FTrunc(FMul(MathPi, FFromBig(scale)))

Pi2Scaled(scale) == FTrunc(FMul(FHalf(MathPi), FFromBig(scale)))

Pi32Scaled(scale) ==
    FTrunc(FMul(FHalf(FMul(FFromBig(<<3>>), MathPi)), FFromBig(scale)))

TwoPiScaled(scale) ==
    FTrunc(FMul(FMul(FFromBig(<<2>>), MathPi), FFromBig(scale)))

GainStep(real, k) == FMul(real, SqrtTerm(k))

\* Faulty variant: the gain product is not inverted.
GainUncompensated(real) == real

GainCompensated(real) == FInv(real)

GainScaled(comp, cscale) == FTrunc(FMul(comp, cscale))

AtanScaled(k, scale) == FTrunc(FMul(MathAtanPow2(k), FFromBig(scale)))

\* Faulty variant: no cap of 10 on the reduction power.
UncappedReductionPower(aw) == aw - ReductionMargin

MaxReductionPower(aw) == Min(aw - ReductionMargin, ReductionCap)

\* The demonstration presets of main().
Configs == <<
    <<16, 12, 16>>,
    <<24, 15, 16>>,
    <<32, 15, 16>>,
    <<40, 18, 20>>,
    <<48, 20, 24>> >>

\* ------------------------------------------------------------------------
\* Inputs: sys.argv, the program name followed by the arguments.
\* ------------------------------------------------------------------------
Prog == <<"g">>

AngleWidthInputs == 4..MaxAngleWidth
IterationInputs == 1..MaxIterations
DataWidthInputs == 1..MaxDataWidth

ValidArgv ==
    {<<Prog, Dec(a), Dec(n), Dec(w)>> :
        a \in AngleWidthInputs, n \in IterationInputs, w \in DataWidthInputs}

\* Tokens int() rejects, and tokens it accepts although they are no valid
\* parameter (negative or zero).
RejectedTokens == {<<"a", "b", "c">>, <<"1", ".", "5">>, << >>}
OddTokens == {<<"-", "3">>, <<"-", "5">>, <<"0">>}

OddArgv ==
    {<<Prog, t, Dec(2), Dec(4)>> : t \in RejectedTokens \cup OddTokens}
    \cup {<<Prog, Dec(8), t, Dec(4)>> : t \in RejectedTokens \cup OddTokens}
    \cup {<<Prog, Dec(8), Dec(2), t>> : t \in RejectedTokens \cup OddTokens}

WrongCountArgv ==
    {<<Prog>>, <<Prog, Dec(8)>>, <<Prog, Dec(8), Dec(2)>>,
     <<Prog, Dec(8), Dec(2), Dec(4), Dec(1)>>}

ArgvInputs == ValidArgv \cup OddArgv \cup WrongCountArgv

\* ------------------------------------------------------------------------
\* State.
\* ------------------------------------------------------------------------
VARIABLES
    argv,                 \* sys.argv
    pc,                   \* the statement main() or the generator is at
    cfg,                  \* index of the next preset of the demonstration loop
    calls,                \* the argument triples the generator was called with
    out,                  \* standard output so far
    angle_width, iterations, width,
    frac_bits, angle_scale, coord_scale,
    pi_scaled, pi_2_scaled, pi_3_2_scaled, two_pi_scaled,
    cordic_gain_real, cordic_gain_compensated, cordic_gain_scaled,
    max_reduction_power,
    i,                    \* loop index of the gain and arctangent loops
    power                 \* loop index of the reduction ladder

params == <<angle_width, iterations, width>>
profile == <<frac_bits, angle_scale, coord_scale>>
angles == <<pi_scaled, pi_2_scaled, pi_3_2_scaled, two_pi_scaled>>
gain == <<cordic_gain_real, cordic_gain_compensated, cordic_gain_scaled>>
vars == <<argv, pc, cfg, calls, out, params, profile, angles, gain,
          max_reduction_power, i, power>>

\* Faulty variant: only fewer than three arguments select the presets.
FewerThanThree == Len(argv) < 4

DemoMode == Len(argv) # 4

Init ==
    /\ argv \in ArgvInputs
    /\ pc = "main"
    /\ cfg = 1
    /\ calls = << >>
    /\ out = << >>
    /\ angle_width = 0 /\ iterations = 0 /\ width = 0
    /\ frac_bits = 0 /\ angle_scale = << >> /\ coord_scale = FOne
    /\ pi_scaled = << >> /\ pi_2_scaled = << >>
    /\ pi_3_2_scaled = << >> /\ two_pi_scaled = << >>
    /\ cordic_gain_real = FOne /\ cordic_gain_compensated = FOne
    /\ cordic_gain_scaled = << >>
    /\ max_reduction_power = 0
    /\ i = 0
    /\ power = 0

\* ------------------------------------------------------------------------
\* main()
\* ------------------------------------------------------------------------
\* if len(sys.argv) != 4: usage text, then the demonstration loop; else parse.
MainDispatch ==
    /\ pc = "main"
    /\ IF DemoMode
       THEN /\ out' = out \o <<Line("usage")>>
            /\ pc' = "demo_loop"
       ELSE /\ out' = out
            /\ pc' = "parse"
    /\ UNCHANGED <<argv, cfg, calls, params, profile, angles, gain,
                   max_reduction_power, i, power>>

\* The three int() conversions and the call of the generator; a rejected
\* string raises ValueError before the generator is called.
ParseArgs ==
    /\ pc = "parse"
    /\ IF IntOk(argv[2]) /\ IntOk(argv[3]) /\ IntOk(argv[4])
       THEN /\ angle_width' = IntVal(argv[2])
            /\ iterations' = IntVal(argv[3])
            /\ width' = IntVal(argv[4])
            /\ calls' = Append(calls, <<IntVal(argv[2]), IntVal(argv[3]), IntVal(argv[4])>>)
            /\ pc' = "gen_start"
       ELSE /\ pc' = "ValueError"
            /\ UNCHANGED <<params, calls>>
    /\ UNCHANGED <<argv, cfg, out, profile, angles, gain,
                   max_reduction_power, i, power>>

\* One pass of "for angle_w, iter_w, width_w in configs": the configuration
\* line and the call of the generator.
DemoCall ==
    /\ pc = "demo_loop"
    /\ cfg <= Len(Configs)
    /\ out' = out \o <<Item("config", "", Configs[cfg][1], << >>, cfg)>>
    /\ angle_width' = Configs[cfg][1]
    /\ iterations' = Configs[cfg][2]
    /\ width' = Configs[cfg][3]
    /\ calls' = Append(calls, Configs[cfg])
    /\ pc' = "gen_start"
    /\ UNCHANGED <<argv, cfg, profile, angles, gain, max_reduction_power, i, power>>

\* After the generator returns in the loop: the banner line "=" * 80.
DemoBanner ==
    /\ pc = "demo_banner"
    /\ out' = out \o <<Line("banner")>>
    /\ cfg' = cfg + 1
    /\ pc' = "demo_loop"
    /\ UNCHANGED <<argv, calls, params, profile, angles, gain,
                   max_reduction_power, i, power>>

\* The loop is exhausted: main() returns.
DemoDone ==
    /\ pc = "demo_loop"
    /\ cfg > Len(Configs)
    /\ pc' = "exit"
    /\ UNCHANGED <<argv, cfg, calls, out, params, profile, angles, gain,
                   max_reduction_power, i, power>>

\* ------------------------------------------------------------------------
\* generate_cordic_constants(angle_width, iterations, width)
\* ------------------------------------------------------------------------
\* frac_bits, angle_scale, coord_scale and the two header comment lines.
GenPrecision ==
    /\ pc = "gen_start"
    /\ frac_bits' = FracBits(angle_width)
    /\ angle_scale' = AngleScale(FracBits(angle_width))
    /\ coord_scale' = CoordScale(width)
    /\ out' = out \o <<Item("header", "", angle_width,
                            BHex(AngleScale(FracBits(angle_width))),
                            FracBits(angle_width))>>
    /\ pc' = "angles"
    /\ UNCHANGED <<argv, cfg, calls, params, angles, gain,
                   max_reduction_power, i, power>>

\* The four scaled angle constants; cordic_gain_real = 1.0.
ComputeAngles ==
    /\ pc = "angles"
    /\ pi_scaled' = PiScaled(angle_scale)
    /\ pi_2_scaled' = Pi2Scaled(angle_scale)
    /\ pi_3_2_scaled' = Pi32Scaled(angle_scale)
    /\ two_pi_scaled' = TwoPiScaled(angle_scale)
    /\ cordic_gain_real' = FOne
    /\ i' = 0
    /\ pc' = "gain_loop"
    /\ UNCHANGED <<argv, cfg, calls, out, params, profile,
                   cordic_gain_compensated, cordic_gain_scaled,
                   max_reduction_power, power>>

\* One pass of "for i in range(iterations)" of the gain product.
GainLoop ==
    /\ pc = "gain_loop"
    /\ i < iterations
    /\ cordic_gain_real' = GainStep(cordic_gain_real, i)
    /\ i' = i + 1
    /\ UNCHANGED <<argv, pc, cfg, calls, out, params, profile, angles,
                   cordic_gain_compensated, cordic_gain_scaled,
                   max_reduction_power, power>>

\* The loop is exhausted: cordic_gain_compensated = 1.0 / cordic_gain_real.
GainInvert ==
    /\ pc = "gain_loop"
    /\ i >= iterations
    /\ cordic_gain_compensated' = GainCompensated(cordic_gain_real)
    /\ pc' = "gain_scale"
    /\ UNCHANGED <<argv, cfg, calls, out, params, profile, angles,
                   cordic_gain_real, cordic_gain_scaled,
                   max_reduction_power, i, power>>

\* cordic_gain_scaled = int(cordic_gain_compensated * coord_scale).
GainScale ==
    /\ pc = "gain_scale"
    /\ cordic_gain_scaled' = GainScaled(cordic_gain_compensated, coord_scale)
    /\ pc' = "emit_angles"
    /\ UNCHANGED <<argv, cfg, calls, out, params, profile, angles,
                   cordic_gain_real, cordic_gain_compensated,
                   max_reduction_power, i, power>>

AngleDecl(name, value) ==
    Item("decl", name, angle_width, FormatHex(value, HexWidth(angle_width)), 0)

\* "// Angle constants" and the four localparam lines; the first f-string
\* raises ValueError when its field width is negative.
EmitAngles ==
    /\ pc = "emit_angles"
    /\ IF FormatOk(HexWidth(angle_width))
       THEN /\ out' = out \o <<Line("angle_comment"),
                               AngleDecl("PI", pi_scaled),
                               AngleDecl("PI_2", pi_2_scaled),
                               AngleDecl("PI_3_2", pi_3_2_scaled),
                               AngleDecl("TWO_PI", two_pi_scaled)>>
            /\ pc' = "emit_gain"
       ELSE /\ out' = out \o <<Line("angle_comment")>>
            /\ pc' = "FormatError"
    /\ UNCHANGED <<argv, cfg, calls, params, profile, angles, gain,
                   max_reduction_power, i, power>>

\* "// CORDIC gain compensation" and the CORDIC_GAIN localparam line.
EmitGain ==
    /\ pc = "emit_gain"
    /\ IF FormatOk(HexWidth(width))
       THEN /\ out' = out \o <<Line("gain_comment"),
                               Item("decl", "CORDIC_GAIN", width,
                                    FormatHex(cordic_gain_scaled, HexWidth(width)), 0)>>
            /\ pc' = "max_reduction"
       ELSE /\ out' = out \o <<Line("gain_comment")>>
            /\ pc' = "FormatError"
    /\ UNCHANGED <<argv, cfg, calls, params, profile, angles, gain,
                   max_reduction_power, i, power>>

\* max_reduction_power, the comment on the reducible angle and the
\* MAX_REDUCTION_POWER localparam line.
EmitMaxReduction ==
    /\ pc = "max_reduction"
    /\ max_reduction_power' = MaxReductionPower(angle_width)
    /\ out' = out \o <<Line("reducible_comment"),
                       Item("decl", "MAX_REDUCTION_POWER", 0, << >>,
                            MaxReductionPower(angle_width))>>
    /\ pc' = "atan_open"
    /\ UNCHANGED <<argv, cfg, calls, params, profile, angles, gain, i, power>>

\* "// Arctangent lookup table" and the opening line of ATAN_TABLE.
AtanOpen ==
    /\ pc = "atan_open"
    /\ out' = out \o <<Item("decl", "ATAN_TABLE", 0, << >>, 0)>>
    /\ i' = 0
    /\ pc' = "atan_loop"
    /\ UNCHANGED <<argv, cfg, calls, params, profile, angles, gain,
                   max_reduction_power, power>>

\* One pass of "for i in range(iterations)" of the table: one entry, the last
\* one without a trailing comma.
AtanEntry ==
    /\ pc = "atan_loop"
    /\ i < iterations
    /\ out' = out \o <<Item("atan",
                            IF i = iterations - 1 THEN "last" ELSE "comma",
                            angle_width,
                            FormatHex(AtanScaled(i, angle_scale), HexWidth(angle_width)),
                            i)>>
    /\ i' = i + 1
    /\ UNCHANGED <<argv, pc, cfg, calls, params, profile, angles, gain,
                   max_reduction_power, power>>

\* The loop is exhausted: "};" and the two comment lines that introduce the
\* reduction logic; the ladder starts at max_reduction_power.
AtanClose ==
    /\ pc = "atan_loop"
    /\ i >= iterations
    /\ out' = out \o <<Line("atan_close"), Line("ladder_intro")>>
    /\ power' = max_reduction_power
    /\ pc' = "ladder"
    /\ UNCHANGED <<argv, cfg, calls, params, profile, angles, gain,
                   max_reduction_power, i>>

\* Faulty variant: every level ends in the quadrant-correction comment.
TerminalAtEveryLevel(pw) ==
    <<Item("level", "else_begin", 0, << >>, pw), Line("quadrant")>>

\* The text of one level: a level with power > 0 compares against
\* (TWO_PI << power) and ends in "end else " with no line break; the level of
\* power 0 compares against TWO_PI and ends in the quadrant-correction
\* comment.
LadderItems(pw) ==
    IF pw > 0
    THEN <<Item("level", "else_open", 0, << >>, pw)>>
    ELSE <<Item("level", "else_begin", 0, << >>, pw), Line("quadrant")>>

\* One pass of "for power in range(max_reduction_power, -1, -1)".
LadderLevel ==
    /\ pc = "ladder"
    /\ power >= 0
    /\ out' = out \o LadderItems(power)
    /\ power' = power - 1
    /\ UNCHANGED <<argv, pc, cfg, calls, params, profile, angles, gain,
                   max_reduction_power, i>>

\* The ladder is exhausted: the closing statistics comments, and return.
EmitStats ==
    /\ pc = "ladder"
    /\ power < 0
    /\ out' = out \o <<Item("stats", "", 0, << >>, max_reduction_power + 1)>>
    /\ pc' = IF DemoMode THEN "demo_banner" ELSE "exit"
    /\ UNCHANGED <<argv, cfg, calls, params, profile, angles, gain,
                   max_reduction_power, i, power>>

Next ==
    \/ MainDispatch
    \/ ParseArgs
    \/ DemoCall
    \/ DemoBanner
    \/ DemoDone
    \/ GenPrecision
    \/ ComputeAngles
    \/ GainLoop
    \/ GainInvert
    \/ GainScale
    \/ EmitAngles
    \/ EmitGain
    \/ EmitMaxReduction
    \/ AtanOpen
    \/ AtanEntry
    \/ AtanClose
    \/ LadderLevel
    \/ EmitStats

Spec == Init /\ [][Next]_vars

\* ========================================================================
\* Properties
\* ========================================================================
\* The output of the run in progress (or of the last run): from its header on.
Headers == {p \in 1..Len(out) : out[p].kind = "header"}

CurRun ==
    IF Headers = {} THEN << >>
    ELSE SubSeq(out, CHOOSE p \in Headers : \A o \in Headers : o <= p, Len(out))

IsLevel(item) == item.kind = "level"
IsAtan(item) == item.kind = "atan"
IsQuadrant(item) == item.kind = "quadrant"
IsHexLiteral(item) == item.kind = "atan" \/ (item.kind = "decl" /\ item.hex # << >>)
IsDeclaration(item) == item.kind \in {"header", "decl", "atan"}
IsLadder(item) == item.kind \in {"level", "quadrant"}

Levels == SelectSeq(CurRun, IsLevel)
AtanEntries == SelectSeq(CurRun, IsAtan)
HexLiterals == SelectSeq(CurRun, IsHexLiteral)

\* The profile of the current parameters has been derived.
Derived == pc \notin {"main", "parse", "ValueError", "gen_start"} /\ Headers # {}

\* The angle constants of the current parameters have been computed.
AnglesComputed == Derived /\ pc # "angles"

\* The run of the current parameters has emitted its last line.
RunComplete == Derived /\ \E p \in 1..Len(CurRun) : CurRun[p].kind = "stats"

Terminated == pc \in {"exit", "ValueError", "FormatError"}

ValidParams == angle_width >= 4 /\ iterations >= 1 /\ width >= 1

\* ------------------------------------------------------------------------
\* C1: for angle_width >= 4, iterations >= 1, data_width >= 1 the generator
\* derives fractional_bits = max(angle_width - 3, 5), never below 5 (5 for
\* angle_width = 4), and angle_scale = 2^fractional_bits (a single bit at
\* position fractional_bits).
C1_FractionalBits ==
    (Derived /\ ValidParams) =>
        /\ frac_bits = (IF angle_width - 3 >= 5 THEN angle_width - 3 ELSE 5)
        /\ frac_bits >= 5
        /\ (angle_width = 4 => frac_bits = 5)
        /\ BBitLen(angle_scale) = frac_bits + 1
        /\ BShr(angle_scale, frac_bits) = <<1>>
        /\ BLow(angle_scale, frac_bits) = << >>

C1_Witness ==
    Derived /\ ValidParams /\ angle_width = 4 /\ frac_bits = 5
    /\ BHex(angle_scale) = <<2, 0>>

\* ------------------------------------------------------------------------
\* C2: for angle_width >= 4 the ladder has exactly max_reduction_power + 1
\* levels with max_reduction_power = min(angle_width - 4, 10), emitted with
\* powers descending by one from max_reduction_power down to 0.
C2_LadderLevels ==
    (Derived /\ angle_width >= 4) =>
        LET top == IF angle_width - 4 <= 10 THEN angle_width - 4 ELSE 10
            lv == Levels
        IN /\ \A k \in 1..Len(lv) : lv[k].idx = top - (k - 1)
           /\ Len(lv) <= top + 1
           /\ RunComplete =>
                 /\ Len(lv) = top + 1
                 /\ lv[1].idx = top
                 /\ lv[Len(lv)].idx = 0

C2_Witness ==
    RunComplete /\ angle_width = 9 /\ Len(Levels) = 6
    /\ Levels[1].idx = 5 /\ Levels[6].idx = 0

\* ------------------------------------------------------------------------
\* C3: for angle_width >= 4 each of PI, PI_2, PI_3_2, TWO_PI is a signed
\* integer of width angle_width: at most 2^(angle_width - 1) - 1, that is, of
\* at most angle_width - 1 bits.
C3_SignedRange ==
    (AnglesComputed /\ angle_width >= 4) =>
        /\ BBitLen(pi_scaled) <= angle_width - 1
        /\ BBitLen(pi_2_scaled) <= angle_width - 1
        /\ BBitLen(pi_3_2_scaled) <= angle_width - 1
        /\ BBitLen(two_pi_scaled) <= angle_width - 1

\* ------------------------------------------------------------------------
\* C4: for angle_width >= 4 the largest reduction amount of the ladder,
\* TWO_PI * 2^max_reduction_power, is at most 2^(angle_width - 1) - 1.
C4_LargestReduction ==
    (Derived /\ angle_width >= 4 /\ Len(Levels) >= 1) =>
        BBitLen(BShl(two_pi_scaled, Levels[1].idx)) <= angle_width - 1

\* ------------------------------------------------------------------------
\* The presets and the mode of main(), as the specification lists them.
Presets == << <<16, 12, 16>>, <<24, 15, 16>>, <<32, 15, 16>>,
              <<40, 18, 20>>, <<48, 20, 24>> >>

ThreeArguments == Len(argv) = 4

Count(kind) == Cardinality({p \in 1..Len(out) : out[p].kind = kind})

\* Not three arguments: the five presets in order, a banner after each run,
\* no failure.
PresetRuns ==
    /\ pc \notin {"parse", "ValueError", "FormatError"}
    /\ Len(calls) <= Len(Presets)
    /\ \A k \in 1..Len(calls) : calls[k] = Presets[k]
    /\ \A p \in 1..Len(out) :
          /\ (out[p].kind = "stats" /\ p < Len(out)) => out[p + 1].kind = "banner"
          /\ (out[p].kind = "config" /\ out[p].idx > 1) => out[p - 1].kind = "banner"
    /\ Count("config") = Len(calls)
    /\ pc = "exit" =>
          /\ calls = Presets
          /\ Count("stats") = 5
          /\ Count("banner") = 5
          /\ out[Len(out)].kind = "banner"

\* Three arguments: one run with the three values, no banner.
SingleRun ==
    /\ pc \notin {"demo_loop", "demo_banner"}
    /\ Count("banner") = 0 /\ Count("config") = 0 /\ Count("usage") = 0
    /\ pc \in {"main", "parse"} => calls = << >>
    /\ pc \notin {"main", "parse"} =>
          calls = << <<IntVal(argv[2]), IntVal(argv[3]), IntVal(argv[4])>> >>

\* C5 (as amended): main selects its mode from the argument count alone; with
\* any count other than three it runs the five presets in order, each run
\* followed by a banner, and does not fail; with exactly three arguments that
\* each convert to an integer it runs the generator exactly once with those
\* three values and emits no banner.
C5_ModeSelection ==
    /\ ~ThreeArguments => PresetRuns
    /\ (ThreeArguments /\ \A k \in 2..4 : IntOk(argv[k])) => SingleRun

C5_Witness ==
    /\ pc = "exit" /\ Len(argv) = 5 /\ calls = Presets
    /\ Count("banner") = 5 /\ out[Len(out)].kind = "banner"

\* C5 (as stated): with exactly three arguments, whatever they are, the
\* generator is run exactly once with those values and no banner is emitted.
C5_AsStated ==
    /\ ~ThreeArguments => PresetRuns
    /\ (ThreeArguments /\ pc \notin {"main", "parse"}) =>
          (Len(calls) = 1 /\ Count("banner") = 0)

\* ------------------------------------------------------------------------
BadArgument(s) == ~IntOk(s) \/ IntVal(s) < 0

\* C6: with exactly three arguments of which one is a non-integer or a
\* negative value, the run ends in a conversion failure: the generator is not
\* run to completion and no constant declaration is produced.
C6_ConversionFailure ==
    (ThreeArguments /\ \E k \in 2..4 : BadArgument(argv[k])) =>
        /\ \A p \in 1..Len(out) : out[p].kind \notin {"decl", "atan", "stats"}
        /\ Terminated => pc = "ValueError"

\* ------------------------------------------------------------------------
\* floor(pi * 2^64) and floor(3 * pi * 2^64).
PiBits == BFromHex(<<3, 2, 4, 3, 15, 6, 10, 8, 8, 8, 5, 10, 3, 0, 8, 13, 3>>)
ThreePiBits == BFromHex(<<9, 6, 12, 11, 14, 3, 15, 9, 9, 9, 0, 14, 9, 1, 10, 7, 9>>)

\* C7: for every angle_width >= 4 and each r in {pi, pi/2, 3*pi/2, 2*pi} the
\* generated integer c satisfies 0 <= r * angle_scale - c < 1, that is,
\* c = floor(r * 2^fractional_bits).
C7_RoundTrip ==
    (AnglesComputed /\ angle_width >= 4) =>
        /\ pi_scaled = BShr(PiBits, 64 - frac_bits)
        /\ pi_2_scaled = BShr(PiBits, 65 - frac_bits)
        /\ pi_3_2_scaled = BShr(ThreePiBits, 65 - frac_bits)
        /\ two_pi_scaled = BShr(PiBits, 63 - frac_bits)

\* ------------------------------------------------------------------------
\* 0.607252 = 0x1.36e9bbf0dc769p-1
GainLimit == [m |-> BFromHex(<<1, 3, 6, 14, 9, 11, 11, 15, 0, 13, 12, 7, 6, 9>>), e |-> -53]

GainFloor == FTrunc(FMul(GainLimit, coord_scale))

\* The gain constant for one more iteration than the current run's, compared
\* with the current gain constant: -1, 0 or 1.
NextGainCmp ==
    LET nreal == GainStep(cordic_gain_real, iterations)
        ncomp == GainCompensated(nreal)
        nscaled == GainScaled(ncomp, coord_scale)
    IN IF nreal.e > 4096 \/ ncomp.e > 4096 \/ Len(nscaled) > 4096 THEN 2
       ELSE IF BCmp(nscaled, GainFloor) < 0 THEN -2
       ELSE BCmp(nscaled, cordic_gain_scaled)

\* The gain constant of a run with valid parameters has just been computed.
GainCase == pc = "emit_angles" /\ iterations >= 1 /\ width >= 1

\* C8 (as amended): holding data_width fixed, for every n >= 1 the gain
\* constant for n + 1 iterations is not larger than the gain constant for n
\* iterations, and the gain constant never falls below
\* trunc(0.607252 * coord_scale).
C8_GainNonIncreasing ==
    GainCase =>
        /\ BCmp(cordic_gain_scaled, GainFloor) >= 0
        /\ NextGainCmp \in {-1, 0}

C8_Witness ==
    GainCase /\ width = 5 /\ iterations = 2 /\ NextGainCmp = -1
    /\ cordic_gain_scaled = <<5>>

\* C8 (as stated): the gain constant for n + 1 iterations is smaller than the
\* gain constant for n iterations.
C8_GainDecreases ==
    GainCase =>
        /\ BCmp(cordic_gain_scaled, GainFloor) >= 0
        /\ NextGainCmp = -1

\* ------------------------------------------------------------------------
\* The literal has exactly ceil(bits / 4) hex digits.
FixedWidth(item) ==
    /\ 4 * (Len(item.hex) - 1) < item.bits
    /\ item.bits <= 4 * Len(item.hex)

LiteralCase == Derived /\ iterations >= 1 /\ width >= 1

\* C9 (as amended): for angle_width >= 5, iterations >= 1 and data_width >= 1
\* every hexadecimal literal emitted (the four angle constants and each
\* arctangent entry at width angle_width, the gain constant at width
\* data_width) has exactly ceil(bit_width / 4) hex digits.
C9_FixedWidthLiterals ==
    (LiteralCase /\ angle_width >= 5) =>
        LET lits == HexLiterals
        IN \A p \in 1..Len(lits) : FixedWidth(lits[p])

C9_Witness ==
    /\ RunComplete /\ iterations = 3 /\ width = 5 /\ angle_width = 16
    /\ Len(HexLiterals) = 8
    /\ HexLiterals[8].hex = <<0, 7, 13, 6>>
    /\ HexLiterals[5].hex = <<0, 4>>

\* C9 (as stated): the same for every angle_width >= 4.
C9_AsStated ==
    (LiteralCase /\ angle_width >= 4) =>
        LET lits == HexLiterals
        IN \A p \in 1..Len(lits) : FixedWidth(lits[p])

====
